---- MODULE Spec2Model ----
(***************************************************************************)
(* Model of the host routing agent: the LangGraph fallback executor        *)
(* (langgraph_stub.py), the travel policy manager (policy_manager.py) and  *)
(* the routing agent with its policy graph (routing_agent.py).             *)
(*                                                                         *)
(* Text is modelled at word granularity: a str is a sequence of tokens,    *)
(* "keyword in text" is token membership after lower(), str.strip()        *)
(* removes leading and trailing blank tokens, and "\n".join puts a "\n"    *)
(* token between the joined parts.  A dict is a function whose DOMAIN is   *)
(* the set of keys present.                                                *)
(***************************************************************************)
EXTENDS Integers, Sequences, FiniteSets, TLC

\* ------------------------------------------------------------------- state

VARIABLES
    ready,                      \* create() has finished _async_init_components
    remote_agent_connections,   \* names with a RemoteAgentConnections
    _weather_agent_name,
    _hotel_agent_name,
    _session_history,           \* session id -> list of {role, content}
    _session_context_ids,       \* <<session id, agent name>> -> context id
    active,                     \* the call the event loop is running, 0 if none
    pc,                         \* per call: idle, running, awaiting, returned, raised
    call,                       \* per call: the arguments of handle_user_message
    state,                      \* per call: ainvoke's state
    current,                    \* per call: ainvoke's current
    pending,                    \* per call: the request awaiting its reply
    returned,                   \* per call: the list handle_user_message returned
    trace,                      \* per call: the nodes ainvoke has invoked
    heard,                      \* per call: the agent and text of each reply to its sends
    concurrent,                 \* some call started while another was in flight
    builder,                    \* a StateGraph under construction
    compiled,                   \* the _CompiledGraph compile() returned, if any
    compile_log,                \* the last compile() call: definition before, outcome
    ops,                        \* number of calls made on the StateGraph
    g_pc,                       \* ainvoke on compiled: idle, running, returned, raised, handled
    g_state,                    \* its state
    g_current,                  \* its current
    g_before,                   \* the state the last node was invoked with
    g_result,                   \* what the last node returned
    g_error,                    \* the exception that left ainvoke
    g_returned,                 \* what handle_user_message made of that run's final state
    g_history                   \* the session history of that handle_user_message call

avars == <<ready, remote_agent_connections, _weather_agent_name, _hotel_agent_name>>
svars == <<_session_history, _session_context_ids>>
rvars == <<active, pc, call, state, current, pending, returned, trace, heard,
           concurrent>>
hvars == <<g_returned, g_history>>
gvars == <<builder, compiled, compile_log, ops, g_pc, g_state, g_current,
           g_before, g_result, g_error, hvars>>
vars == <<avars, svars, rvars, gvars>>

\* ------------------------------------------------------------------ bounds

\* Number of handle_user_message calls in one behaviour.
MaxRuns == 2
\* A repeated list item (the note and the fragment of one more identical
\* weather round trip) is recorded at most MaxRepeat times, and the counter
\* of weather calls saturates at MaxRepeat ("MaxRepeat or more").
MaxRepeat == 3

Runs == 1..MaxRuns

\* ------------------------------------------------------------ Python values

\* None where a str is expected, and None where a decision name is expected.
NoneText == <<"<None>">>
NoneStr == "<None>"

\* bool(text) for an Optional[str].
Truthy(t) == t # NoneText /\ t # <<>>

\* dict.get(key, default)
Get(d, k, default) == IF k \in DOMAIN d THEN d[k] ELSE default

\* {**d, k: v}
With(d, k, v) == (k :> v) @@ d

\* ------------------------------------------------------------------- text

LowerTok(t) ==
    CASE t = "Hotel" -> "hotel"
      [] t = "Weather" -> "weather"
      [] t = "Storm" -> "storm"
      [] t = "Warning" -> "warning"
      [] t = "Severe" -> "severe"
      [] t = "Warm" -> "warm"
      [] t = "Book" -> "book"
      [] t = "What" -> "what"
      [] t = "Okay" -> "okay"
      [] t = "Seattle" -> "seattle"
      [] t = "Austin" -> "austin"
      [] t = "Long" -> "long"
      [] t = "Beach" -> "beach"
      [] t = "Ocean" -> "ocean"
      [] t = "Breeze" -> "breeze"
      [] OTHER -> t

\* str.lower()
Lower(text) == [i \in DOMAIN text |-> LowerTok(text[i])]

Blank == {" ", "\n"}

\* str.strip()
RECURSIVE LStrip(_)
LStrip(text) ==
    IF text # <<>> /\ Head(text) \in Blank THEN LStrip(Tail(text)) ELSE text

RECURSIVE RStrip(_)
RStrip(text) ==
    IF text # <<>> /\ text[Len(text)] \in Blank
    THEN RStrip(SubSeq(text, 1, Len(text) - 1))
    ELSE text

Strip(text) == RStrip(LStrip(text))

\* "\n".join(lines)
RECURSIVE Join(_)
Join(lines) ==
    IF lines = <<>> THEN <<>>
    ELSE IF Len(lines) = 1 THEN lines[1]
    ELSE lines[1] \o <<"\n">> \o Join(Tail(lines))

\* needle in hay, for a phrase of one or more tokens
Contains(hay, needle) ==
    \E i \in 1..(Len(hay) - Len(needle) + 1) :
        SubSeq(hay, i, i + Len(needle) - 1) = needle

\* filter(None, texts)
RECURSIVE FilterNonEmpty(_)
FilterNonEmpty(texts) ==
    IF texts = <<>> THEN <<>>
    ELSE IF Head(texts) = <<>> THEN FilterNonEmpty(Tail(texts))
    ELSE <<Head(texts)>> \o FilterNonEmpty(Tail(texts))

\* --------------------------------------------------------- policy_manager.py

WEATHER_KEYWORDS == {"weather", "forecast", "temperature", "rain", "snow"}

RENTAL_KEYWORDS ==
    {"hotel", "stay", "rental", "lodging", "apartment", "condo", "cabin"}

HAZARD_KEYWORDS ==
    {"storm", "warning", "advisory", "hazard", "flood", "blizzard",
     "hurricane", "tornado", "heat wave", "dangerous"}

\* The words of the vocabulary matching [A-Z][A-Za-z]+ .
CapWord(t) == LowerTok(t) # t

\* _LOCATION_PATTERN: a preposition followed by one to four capitalised words.
LocationPreps == {"in", "near", "around", "for"}

MatchAt(message, i) ==
    /\ message[i] \in LocationPreps
    /\ i + 1 <= Len(message)
    /\ CapWord(message[i + 1])

RECURSIVE CapRun(_, _, _)
CapRun(message, j, left) ==
    IF left = 0 \/ j > Len(message) \/ ~CapWord(message[j]) THEN <<>>
    ELSE <<message[j]>> \o CapRun(message, j + 1, left - 1)

_extract_location_hint(message) ==
    IF \E i \in DOMAIN message : MatchAt(message, i)
    THEN LET i == CHOOSE k \in DOMAIN message :
                      /\ MatchAt(message, k)
                      /\ \A m \in DOMAIN message : MatchAt(message, m) => k <= m
         IN  CapRun(message, i + 1, 4)
    ELSE NoneText

NoteRental ==
    <<"Policy: hotel planning must include a fresh weather review before sharing listings.">>
NoteWeather ==
    <<"Policy: provide a concise weather outlook from the specialist.">>

classify_requestNoForcedWeather(message) ==
    LET lowered == Lower(message)
        mentions_weather == \E i \in DOMAIN lowered : lowered[i] \in WEATHER_KEYWORDS
        mentions_rental == \E i \in DOMAIN lowered : lowered[i] \in RENTAL_KEYWORDS
        need_rentals == mentions_rental
        need_weather == mentions_weather
    IN  [need_weather |-> need_weather,
         need_rentals |-> need_rentals,
         location_hint |-> _extract_location_hint(message),
         note |-> IF need_rentals THEN NoteRental
                  ELSE IF need_weather THEN NoteWeather
                  ELSE NoneText]

classify_request(message) ==
    LET lowered == Lower(message)
        mentions_weather == \E i \in DOMAIN lowered : lowered[i] \in WEATHER_KEYWORDS
        mentions_rental == \E i \in DOMAIN lowered : lowered[i] \in RENTAL_KEYWORDS
        need_rentals == mentions_rental
        need_weather == mentions_weather \/ need_rentals
    IN  [need_weather |-> need_weather,
         need_rentals |-> need_rentals,
         location_hint |-> _extract_location_hint(message),
         note |-> IF need_rentals THEN NoteRental
                  ELSE IF need_weather THEN NoteWeather
                  ELSE NoneText]

should_block_rentalsCaseSensitive(weather_report) ==
    \E i \in DOMAIN weather_report : weather_report[i] \in HAZARD_KEYWORDS

should_block_rentals(weather_report) ==
    LET lowered == Lower(weather_report)
    IN  \E i \in DOMAIN lowered : lowered[i] \in HAZARD_KEYWORDS

\* --------------------------------------------------------- langgraph_stub.py

\* The END sentinel: a value no node name equals.
END == "<LangGraph END>"

\* A node callable returning None.
NoneResult == ("<None>" :> TRUE)

\* StateGraph.__init__
StateGraphNew ==
    [_nodes |-> <<>>, _edges |-> <<>>, _conditionals |-> <<>>,
     _entry_point |-> NoneStr]

add_node(g, name, func) == [g EXCEPT !._nodes = With(@, name, func)]

set_entry_point(g, name) == [g EXCEPT !._entry_point = name]

add_edge(g, start, end) == [g EXCEPT !._edges = With(@, start, end)]

add_conditional_edges(g, start, router, mapping) ==
    [g EXCEPT !._conditionals =
        With(@, start, [router |-> router, mapping |-> mapping])]

compileNoCheck(g) ==
    [ok |-> TRUE,
     graph |-> [_nodes |-> g._nodes, _edges |-> g._edges,
                _conditionals |-> g._conditionals,
                _entry_point |-> g._entry_point]]

compileChecksEntry(g) ==
    IF g._entry_point = NoneStr \/ g._entry_point \notin DOMAIN g._nodes
    THEN [ok |-> FALSE, error |-> "RuntimeError"]
    ELSE [ok |-> TRUE,
          graph |-> [_nodes |-> g._nodes, _edges |-> g._edges,
                     _conditionals |-> g._conditionals,
                     _entry_point |-> g._entry_point]]

\* StateGraph.compile: RuntimeError without an entry point, else a
\* _CompiledGraph over the definition's tables.
compile(g) ==
    IF g._entry_point = NoneStr
    THEN [ok |-> FALSE, error |-> "RuntimeError"]
    ELSE [ok |-> TRUE,
          graph |-> [_nodes |-> g._nodes, _edges |-> g._edges,
                     _conditionals |-> g._conditionals,
                     _entry_point |-> g._entry_point]]

MergeResultPerKey(st, result) ==
    IF result = NoneResult THEN st ELSE result @@ st

\* ainvoke: "if result is not None: state = result".
MergeResult(st, result) == IF result = NoneResult THEN st ELSE result

\* --------------------------------------------------------- routing_agent.py

\* A repeated item is recorded at most MaxRepeat times (bound of the model).
Count(list, x) == Cardinality({i \in DOMAIN list : list[i] = x})

AppendRep(list, x) ==
    IF Count(list, x) >= MaxRepeat THEN list ELSE Append(list, x)

ChunkPolicyHotel ==
    <<"Policy check: I'll review the weather before sharing", "hotel ideas", ".">>
ChunkPolicyWeather ==
    <<"Policy check: looping in the weather specialist for you.">>

_classify_requestOncePerSession(st) ==
    LET classification == classify_request(st["user_message"])
        policy_notes == IF Truthy(classification.note)
                        THEN <<classification.note>> ELSE <<>>
        response_chunks ==
            IF Len(_session_history[st["session_id"]]) > 1 THEN <<>>
            ELSE IF classification.need_rentals THEN <<ChunkPolicyHotel>>
            ELSE IF classification.need_weather THEN <<ChunkPolicyWeather>>
            ELSE <<>>
    IN  [session_id |-> st["session_id"],
         user_message |-> st["user_message"],
         response_chunks |-> response_chunks,
         policy_notes |-> policy_notes,
         need_weather |-> classification.need_weather,
         need_hotel |-> classification.need_rentals,
         location_hint |-> classification.location_hint]

_classify_request(st) ==
    LET classification == classify_request(st["user_message"])
        policy_notes == IF Truthy(classification.note)
                        THEN <<classification.note>> ELSE <<>>
        response_chunks ==
            IF classification.need_rentals THEN <<ChunkPolicyHotel>>
            ELSE IF classification.need_weather THEN <<ChunkPolicyWeather>>
            ELSE <<>>
    IN  [session_id |-> st["session_id"],
         user_message |-> st["user_message"],
         response_chunks |-> response_chunks,
         policy_notes |-> policy_notes,
         need_weather |-> classification.need_weather,
         need_hotel |-> classification.need_rentals,
         location_hint |-> classification.location_hint]

NoteNoWeatherAgent ==
    <<"Policy fallback: weather specialist unavailable; responding directly.">>
NoteAwaitWeather ==
    <<"Policy: awaiting weather data before continuing with the plan.">>
NoteRefetch ==
    <<"Policy: weather result missing, re-requesting from specialist.">>
NoteHazard ==
    <<"Policy:", "hazardous conditions", "detected, pausing hotel guidance.">>
NoteNoHotelAgent ==
    <<"Policy fallback: Hotel specialist unavailable, sharing weather only.">>
NoteAllow ==
    <<"Policy: weather looks acceptable, gathering hotel suggestions.">>

EvaluateHotelNoHazardCheck(st, policy_notes, hotel_agent) ==
    LET weather_output ==
            IF Truthy(Get(st, "weather_output", NoneText))
            THEN st["weather_output"] ELSE <<>>
    IN  IF ~Truthy(weather_output)
        THEN With(With(st, "policy_notes", AppendRep(policy_notes, NoteRefetch)),
                  "policy_route", "fetch_weather")
        ELSE IF hotel_agent = NoneStr
        THEN With(With(With(st, "policy_notes", Append(policy_notes, NoteNoHotelAgent)),
                       "policy_route", "respond"),
                  "final_decision", "allow_hotel")
        ELSE With(With(With(st, "policy_notes", Append(policy_notes, NoteAllow)),
                       "policy_route", "fetch_hotel"),
                  "final_decision", "allow_hotel")

EvaluateHotelNoAgentCheck(st, policy_notes, hotel_agent) ==
    LET weather_output ==
            IF Truthy(Get(st, "weather_output", NoneText))
            THEN st["weather_output"] ELSE <<>>
    IN  IF ~Truthy(weather_output)
        THEN With(With(st, "policy_notes", AppendRep(policy_notes, NoteRefetch)),
                  "policy_route", "fetch_weather")
        ELSE IF should_block_rentals(weather_output)
        THEN With(With(With(st, "policy_notes", Append(policy_notes, NoteHazard)),
                       "policy_route", "deny_hotel"),
                  "final_decision", "deny_hotel")
        ELSE With(With(With(st, "policy_notes", Append(policy_notes, NoteAllow)),
                       "policy_route", "fetch_hotel"),
                  "final_decision", "allow_hotel")

\* Branch 2 of _evaluate_policy (lines 296-335).
EvaluateHotel(st, policy_notes, hotel_agent) ==
    LET weather_output ==
            IF Truthy(Get(st, "weather_output", NoneText))
            THEN st["weather_output"] ELSE <<>>
    IN  IF ~Truthy(weather_output)
        THEN With(With(st, "policy_notes", AppendRep(policy_notes, NoteRefetch)),
                  "policy_route", "fetch_weather")
        ELSE IF should_block_rentals(weather_output)
        THEN With(With(With(st, "policy_notes", Append(policy_notes, NoteHazard)),
                       "policy_route", "deny_hotel"),
                  "final_decision", "deny_hotel")
        ELSE IF hotel_agent = NoneStr
        THEN With(With(With(st, "policy_notes", Append(policy_notes, NoteNoHotelAgent)),
                       "policy_route", "respond"),
                  "final_decision", "allow_hotel")
        ELSE With(With(With(st, "policy_notes", Append(policy_notes, NoteAllow)),
                       "policy_route", "fetch_hotel"),
                  "final_decision", "allow_hotel")

_evaluate_policyDegradedFetchesHotel(st, weather_agent, hotel_agent) ==
    LET policy_notes == Get(st, "policy_notes", <<>>)
    IN  IF Get(st, "need_weather", FALSE)
           /\ ~Truthy(Get(st, "weather_output", NoneText))
        THEN IF weather_agent = NoneStr
             THEN With(With(With(st, "policy_notes",
                                 Append(policy_notes, NoteNoWeatherAgent)),
                            "policy_route",
                            IF Get(st, "need_hotel", FALSE) /\ hotel_agent # NoneStr
                            THEN "fetch_hotel" ELSE "respond"),
                       "final_decision", Get(st, "final_decision", NoneStr))
             ELSE With(With(st, "policy_notes",
                            AppendRep(policy_notes, NoteAwaitWeather)),
                       "policy_route", "fetch_weather")
        ELSE IF Get(st, "need_hotel", FALSE)
        THEN EvaluateHotel(st, policy_notes, hotel_agent)
        ELSE With(With(With(st, "policy_notes", policy_notes),
                       "policy_route", "respond"),
                  "final_decision", Get(st, "final_decision", NoneStr))

_evaluate_policyHotelFirst(st, weather_agent, hotel_agent) ==
    LET policy_notes == Get(st, "policy_notes", <<>>)
    IN  IF Get(st, "need_hotel", FALSE)
        THEN EvaluateHotel(st, policy_notes, hotel_agent)
        ELSE IF Get(st, "need_weather", FALSE)
                /\ ~Truthy(Get(st, "weather_output", NoneText))
        THEN IF weather_agent = NoneStr
             THEN With(With(With(st, "policy_notes",
                                 Append(policy_notes, NoteNoWeatherAgent)),
                            "policy_route", "respond"),
                       "final_decision", Get(st, "final_decision", NoneStr))
             ELSE With(With(st, "policy_notes",
                            AppendRep(policy_notes, NoteAwaitWeather)),
                       "policy_route", "fetch_weather")
        ELSE With(With(With(st, "policy_notes", policy_notes),
                       "policy_route", "respond"),
                  "final_decision", Get(st, "final_decision", NoneStr))

_evaluate_policy(st, weather_agent, hotel_agent) ==
    LET policy_notes == Get(st, "policy_notes", <<>>)
    IN  IF Get(st, "need_weather", FALSE)
           /\ ~Truthy(Get(st, "weather_output", NoneText))
        THEN IF weather_agent = NoneStr
             THEN With(With(With(st, "policy_notes",
                                 Append(policy_notes, NoteNoWeatherAgent)),
                            "policy_route", "respond"),
                       "final_decision", Get(st, "final_decision", NoneStr))
             ELSE With(With(st, "policy_notes",
                            AppendRep(policy_notes, NoteAwaitWeather)),
                       "policy_route", "fetch_weather")
        ELSE IF Get(st, "need_hotel", FALSE)
        THEN EvaluateHotel(st, policy_notes, hotel_agent)
        ELSE With(With(With(st, "policy_notes", policy_notes),
                       "policy_route", "respond"),
                  "final_decision", Get(st, "final_decision", NoneStr))

_route_policy(st) == Get(st, "policy_route", "respond")

\* _part_to_text: the text of a TextPart, a description of a FilePart.
_part_to_text(part) ==
    CASE part.type = "text" -> part.text
      [] part.type = "file" -> <<"Received file content (unknown mime type).">>
      [] OTHER -> <<>>

\* _extract_task_output; task is NoneResult for None, else the parts of
\* task.status.message.
_extract_task_output(task) ==
    IF task = NoneResult THEN <<>>
    ELSE IF task.parts = <<>> THEN <<>>
    ELSE Join(FilterNonEmpty([i \in DOMAIN task.parts |-> _part_to_text(task.parts[i])]))

LocationText(st) ==
    LET location == Get(st, "location_hint", NoneText)
    IN  IF Truthy(location) THEN <<"for">> \o location ELSE <<>>

ChunkWeatherOffline == <<"Weather specialist is offline right now.">>
ChunkHotelOffline == <<"Hotel specialist is offline right now.">>
ChunkNoHotelOptions == <<"The Hotel specialist did not return any options.">>

\* _fetch_weather without a weather agent (lines 351-353).
FetchWeatherOffline(st) ==
    With(With(st, "response_chunks",
              AppendRep(Get(st, "response_chunks", <<>>), ChunkWeatherOffline)),
         "weather_output", <<>>)

\* The task prompt of _fetch_weather (lines 357-361).
WeatherPrompt(st) ==
    <<"You are assisting a travel policy review.", "User request:">>
        \o st["user_message"]

FetchWeatherDoneOverwrites(st, task) ==
    LET weather_output == _extract_task_output(task)
    IN  With(With(st, "response_chunks",
                  IF Truthy(weather_output)
                  THEN <<<<"Weather outlook">> \o LocationText(st)
                           \o <<":", "\n">> \o Strip(weather_output)>>
                  ELSE <<<<"I could not retrieve a weather update">>
                           \o LocationText(st) \o <<".">>>>),
             "weather_output", weather_output)

\* _fetch_weather after _send_message returned task (lines 363-378).
FetchWeatherDone(st, task) ==
    LET responses == Get(st, "response_chunks", <<>>)
        weather_output == _extract_task_output(task)
    IN  With(With(st, "response_chunks",
                  IF Truthy(weather_output)
                  THEN Append(responses, <<"Weather outlook">> \o LocationText(st)
                                           \o <<":", "\n">> \o Strip(weather_output))
                  ELSE AppendRep(responses, <<"I could not retrieve a weather update">>
                                               \o LocationText(st) \o <<".">>)),
             "weather_output", weather_output)

\* _fetch_hotel without a hotel agent (lines 384-386).
FetchHotelOffline(st) ==
    With(With(st, "response_chunks",
              Append(Get(st, "response_chunks", <<>>), ChunkHotelOffline)),
         "hotel_output", <<>>)

\* The task prompt of _fetch_hotel (lines 388-393).
HotelPrompt(st) ==
    <<"The host assistant cleared the weather policy check.", "Weather summary:">>
        \o Get(st, "weather_output", <<"Not available">>)
        \o <<"User request:">> \o st["user_message"]

\* _fetch_hotel after _send_message returned task (lines 395-406).
FetchHotelDone(st, task) ==
    LET responses == Get(st, "response_chunks", <<>>)
        hotel_output == _extract_task_output(task)
    IN  With(With(st, "response_chunks",
                  IF Truthy(hotel_output)
                  THEN Append(responses, <<"Hotel ideas", ":", "\n">> \o Strip(hotel_output))
                  ELSE Append(responses, ChunkNoHotelOptions)),
             "hotel_output", hotel_output)

SummaryDeny ==
    <<"Because the forecast includes", "hazardous conditions",
      ", I'm pausing hotel recommendations. Consider alternate dates or destinations.">>
SummaryRentals ==
    <<"Here are some rental ideas", "that align with the current forecast.">>
SummaryWeather ==
    <<"Let me know if you need help planning activities around this weather outlook.">>
SummaryNeutral ==
    <<"I can coordinate weather checks and hotel planning whenever you're ready.">>

SummaryHeadWeatherFirst(st) ==
    LET need_hotel == Get(st, "need_hotel", FALSE)
        final_decision == Get(st, "final_decision", NoneStr)
        weather_output == Get(st, "weather_output", NoneText)
    IN  IF need_hotel /\ final_decision = "deny_hotel" THEN <<SummaryDeny>>
        ELSE IF Truthy(weather_output) THEN <<SummaryWeather>>
        ELSE IF need_hotel /\ Truthy(Get(st, "hotel_output", NoneText))
        THEN <<SummaryRentals, Strip(st["hotel_output"])>>
        ELSE <<SummaryNeutral>>

\* The first summary lines of _compose_response (lines 415-431).
SummaryHead(st) ==
    LET need_hotel == Get(st, "need_hotel", FALSE)
        final_decision == Get(st, "final_decision", NoneStr)
        weather_output == Get(st, "weather_output", NoneText)
    IN  IF need_hotel /\ final_decision = "deny_hotel" THEN <<SummaryDeny>>
        ELSE IF need_hotel /\ Truthy(Get(st, "hotel_output", NoneText))
        THEN <<SummaryRentals, Strip(st["hotel_output"])>>
        ELSE IF Truthy(weather_output) THEN <<SummaryWeather>>
        ELSE <<SummaryNeutral>>

_compose_responseNoSummary(st) ==
    With(st, "response_chunks", Get(st, "response_chunks", <<>>))

_compose_response(st) ==
    LET responses == Get(st, "response_chunks", <<>>)
        policy_notes == Get(st, "policy_notes", <<>>)
        summary_lines ==
            IF policy_notes # <<>>
            THEN SummaryHead(st) \o <<<<"Policy summary:">>>>
                 \o [i \in DOMAIN policy_notes |-> <<"-">> \o policy_notes[i]]
            ELSE SummaryHead(st)
    IN  With(st, "response_chunks", Append(responses, Join(summary_lines)))

_build_graphNoDenyRoute ==
    LET g0 == StateGraphNew
        g1 == add_node(g0, "classify_request", "_classify_request")
        g2 == add_node(g1, "evaluate_policy", "_evaluate_policy")
        g3 == add_node(g2, "fetch_weather", "_fetch_weather")
        g4 == add_node(g3, "fetch_hotel", "_fetch_hotel")
        g5 == add_node(g4, "compose_response", "_compose_response")
        g6 == set_entry_point(g5, "classify_request")
        g7 == add_edge(g6, "classify_request", "evaluate_policy")
        g8 == add_conditional_edges(g7, "evaluate_policy", "_route_policy",
                  [fetch_weather |-> "fetch_weather",
                   fetch_hotel |-> "fetch_hotel",
                   respond |-> "compose_response"])
        g9 == add_edge(g8, "fetch_weather", "evaluate_policy")
        g10 == add_edge(g9, "fetch_hotel", "compose_response")
        g11 == add_edge(g10, "compose_response", END)
    IN  compile(g11).graph

\* _build_graph: the policy graph of the routing agent.
_build_graph ==
    LET g0 == StateGraphNew
        g1 == add_node(g0, "classify_request", "_classify_request")
        g2 == add_node(g1, "evaluate_policy", "_evaluate_policy")
        g3 == add_node(g2, "fetch_weather", "_fetch_weather")
        g4 == add_node(g3, "fetch_hotel", "_fetch_hotel")
        g5 == add_node(g4, "compose_response", "_compose_response")
        g6 == set_entry_point(g5, "classify_request")
        g7 == add_edge(g6, "classify_request", "evaluate_policy")
        g8 == add_conditional_edges(g7, "evaluate_policy", "_route_policy",
                  [fetch_weather |-> "fetch_weather",
                   fetch_hotel |-> "fetch_hotel",
                   deny_hotel |-> "compose_response",
                   respond |-> "compose_response"])
        g9 == add_edge(g8, "fetch_weather", "evaluate_policy")
        g10 == add_edge(g9, "fetch_hotel", "compose_response")
        g11 == add_edge(g10, "compose_response", END)
    IN  compile(g11).graph

\* ------------------------------------------------------------------ inputs

MsgHotel == <<"Book", "a", "Hotel", "in", "Seattle">>
MsgWeather == <<"What", "is", "the", "weather", "in", "Austin">>
MsgFollowUp == <<"Okay", "how", "about", "Long", "Beach", "instead">>
Messages == {MsgHotel, MsgWeather, MsgFollowUp}

Sessions == {"s1", "s2"}

WeatherCard ==
    [name |-> "Weather Agent", name_words |-> <<"Weather", "Agent">>,
     description |-> <<"Forecasts">>]
HotelCard ==
    [name |-> "Stay Agent", name_words |-> <<"Stay", "Agent">>,
     description |-> <<"Finds", "a", "Hotel">>]
Cards == {WeatherCard, HotelCard}

TextPart(t) == [type |-> "text", text |-> t]

WCalm == <<TextPart(<<"Warm">>), TextPart(<<>>), TextPart(<<"sunshine">>)>>
WStorm == <<TextPart(<<"Severe", "Storm", "Warning">>)>>
HLoft == <<TextPart(<<" ", "Ocean", "Breeze", "loft", "\n">>)>>

ContextIds == {"ctx-a", "ctx-b"}

\* What connection.send_message can come back with: a Task, a JSON-RPC error,
\* a success whose result is a Message, or an exception.
PartsOf(agent_name) ==
    IF agent_name = WeatherCard.name THEN {<<>>, WCalm, WStorm} ELSE {<<>>, HLoft}

Replies(agent_name) ==
    [kind : {"task"}, parts : PartsOf(agent_name), context_id : ContextIds]
    \cup [kind : {"error", "message", "raise"}, parts : {<<>>}, context_id : {NoneStr}]

\* -------------------------------------------------------------------- init

NoCall == [message |-> <<>>, session_id |-> NoneStr]
NoPending == [agent_name |-> NoneStr, task |-> <<>>, context_id |-> NoneStr]

NoCompiled == [made |-> FALSE, _entry_point |-> NoneStr]
NoCompileCall == [called |-> FALSE, before |-> StateGraphNew, ok |-> FALSE,
                  error |-> NoneStr]

\* No node has been invoked in this ainvoke yet.
NotRun == ("<not run>" :> TRUE)

\* StateGraph(...) with no call made on it yet, nothing compiled or run.
GraphInit ==
    /\ builder = StateGraphNew
    /\ compiled = NoCompiled
    /\ compile_log = NoCompileCall
    /\ ops = 0
    /\ g_pc = "idle"
    /\ g_state = <<>>
    /\ g_current = END
    /\ g_before = <<>>
    /\ g_result = NotRun
    /\ g_error = NoneStr
    /\ g_returned = <<>>
    /\ g_history = <<>>

\* RoutingAgent.__init__
Init ==
    /\ GraphInit
    /\ ready = FALSE
    /\ remote_agent_connections = {}
    /\ _weather_agent_name = NoneStr
    /\ _hotel_agent_name = NoneStr
    /\ _session_history = <<>>
    /\ _session_context_ids = <<>>
    /\ active = 0
    /\ pc = [r \in Runs |-> "idle"]
    /\ call = [r \in Runs |-> NoCall]
    /\ state = [r \in Runs |-> <<>>]
    /\ current = [r \in Runs |-> END]
    /\ pending = [r \in Runs |-> NoPending]
    /\ returned = [r \in Runs |-> <<>>]
    /\ trace = [r \in Runs |-> <<>>]
    /\ heard = [r \in Runs |-> <<>>]
    /\ concurrent = FALSE

Mentions(card, word) ==
    \/ \E i \in DOMAIN card.name_words : LowerTok(card.name_words[i]) = word
    \/ \E i \in DOMAIN card.description : LowerTok(card.description[i]) = word

\* _async_init_components: one address whose card was loaded, with
\* _maybe_track_specialist.
LoadCard(card) ==
    /\ ~ready
    /\ card.name \notin remote_agent_connections
    /\ remote_agent_connections' = remote_agent_connections \cup {card.name}
    /\ _weather_agent_name' =
          IF _weather_agent_name = NoneStr /\ Mentions(card, "weather")
          THEN card.name ELSE _weather_agent_name
    /\ _hotel_agent_name' =
          IF _hotel_agent_name = NoneStr
             /\ (Mentions(card, "hotel") \/ Mentions(card, "rental"))
          THEN card.name ELSE _hotel_agent_name
    /\ UNCHANGED <<ready, svars, rvars, gvars>>

\* RoutingAgent.create returns the instance.
Created ==
    /\ ~ready
    /\ ready' = TRUE
    /\ UNCHANGED <<remote_agent_connections, _weather_agent_name,
                   _hotel_agent_name, svars, rvars, gvars>>

Graph == _build_graph

\* Session ids are interchangeable: a call uses a session already used or the
\* first unused one.
FreshOrUsed ==
    LET used == {call[q].session_id : q \in {q \in Runs : pc[q] # "idle"}}
    IN  used \cup (IF "s1" \notin used THEN {"s1"} ELSE Sessions)

StartRunResetsHistory(r, message, session_id) ==
    /\ ready
    /\ active = 0
    /\ pc[r] = "idle"
    /\ \A q \in Runs : q < r => pc[q] # "idle"
    /\ session_id \in FreshOrUsed
    /\ _session_history' =
          With(_session_history, session_id,
               <<[role |-> "user", content |-> message]>>)
    /\ call' = [call EXCEPT ![r] = [message |-> message, session_id |-> session_id]]
    /\ state' = [state EXCEPT ![r] =
          [user_message |-> message, session_id |-> session_id]]
    /\ current' = [current EXCEPT ![r] = Graph._entry_point]
    /\ pc' = [pc EXCEPT ![r] = "running"]
    /\ active' = r
    /\ concurrent' = (concurrent \/ \E q \in Runs : pc[q] \in {"running", "awaiting"})
    /\ UNCHANGED <<avars, _session_context_ids, pending, returned, trace, heard, gvars>>

\* handle_user_message up to the first node of ainvoke (lines 121-128 and
\* ainvoke lines 47-48).
StartRun(r, message, session_id) ==
    /\ ready
    /\ active = 0
    /\ pc[r] = "idle"
    /\ \A q \in Runs : q < r => pc[q] # "idle"
    /\ session_id \in FreshOrUsed
    /\ _session_history' =
          With(_session_history, session_id,
               Append(Get(_session_history, session_id, <<>>),
                      [role |-> "user", content |-> message]))
    /\ call' = [call EXCEPT ![r] = [message |-> message, session_id |-> session_id]]
    /\ state' = [state EXCEPT ![r] =
          [user_message |-> message, session_id |-> session_id]]
    /\ current' = [current EXCEPT ![r] = Graph._entry_point]
    /\ pc' = [pc EXCEPT ![r] = "running"]
    /\ active' = r
    /\ concurrent' = (concurrent \/ \E q \in Runs : pc[q] \in {"running", "awaiting"})
    /\ UNCHANGED <<avars, _session_context_ids, pending, returned, trace, heard, gvars>>

\* The router of a conditional edge.
Route(router, st) ==
    CASE router = "_route_policy" -> _route_policy(st)
      [] router = "by_route" -> Get(st, "route", "none")
      [] OTHER -> NoneStr

NextNodeFallsThrough(g, cur, st) ==
    IF cur \in DOMAIN g._conditionals
       /\ Route(g._conditionals[cur].router, st) \in DOMAIN g._conditionals[cur].mapping
    THEN g._conditionals[cur].mapping[Route(g._conditionals[cur].router, st)]
    ELSE Get(g._edges, cur, END)

\* ainvoke lines 58-65: the conditional edge of cur if it has one, else its
\* static edge, else END.
NextNode(g, cur, st) ==
    IF cur \in DOMAIN g._conditionals
    THEN Get(g._conditionals[cur].mapping,
             Route(g._conditionals[cur].router, st), END)
    ELSE Get(g._edges, cur, END)

\* The call whose ainvoke is about to invoke the node callable func.
AtNode(r, func) ==
    /\ active = r
    /\ pc[r] = "running"
    /\ current[r] # END
    /\ current[r] \in DOMAIN Graph._nodes
    /\ Graph._nodes[current[r]] = func

AdvanceSharedState(r, result) ==
    LET st == MergeResult(state[r], result)
    IN  /\ state' = [q \in Runs |->
                        IF pc[q] \in {"running", "awaiting"} THEN st ELSE state[q]]
        /\ current' = [current EXCEPT ![r] = NextNode(Graph, current[r], st)]

\* One iteration of ainvoke's loop once the node returned result.
Advance(r, result) ==
    LET st == MergeResult(state[r], result)
    IN  /\ state' = [state EXCEPT ![r] = st]
        /\ current' = [current EXCEPT ![r] = NextNode(Graph, current[r], st)]

\* ainvoke line 52: the node callable of current is invoked.
Invoked(r) == trace' = [trace EXCEPT ![r] = AppendRep(@, current[r])]

ClassifyStep(r) ==
    /\ AtNode(r, "_classify_request")
    /\ Invoked(r)
    /\ Advance(r, _classify_request(state[r]))
    /\ UNCHANGED <<avars, svars, active, pc, call, pending, returned, heard, concurrent, gvars>>

EvaluateStep(r) ==
    /\ AtNode(r, "_evaluate_policy")
    /\ Invoked(r)
    /\ Advance(r, _evaluate_policy(state[r], _weather_agent_name, _hotel_agent_name))
    /\ UNCHANGED <<avars, svars, active, pc, call, pending, returned, heard, concurrent, gvars>>

ComposeStep(r) ==
    /\ AtNode(r, "_compose_response")
    /\ Invoked(r)
    /\ Advance(r, _compose_response(state[r]))
    /\ UNCHANGED <<avars, svars, active, pc, call, pending, returned, heard, concurrent, gvars>>

\* _send_message before its await (lines 169-189): the request it sends, with
\* the context id stored for (session, agent) when there is one.
SendRequest(agent_name, task, session_id) ==
    [agent_name |-> agent_name, task |-> task,
     context_id |-> Get(_session_context_ids, <<session_id, agent_name>>, NoneStr)]

\* _send_message after its await (lines 194-204): the Task, or None.
SendResult(reply) ==
    IF reply.kind = "task"
    THEN [parts |-> reply.parts, context_id |-> reply.context_id]
    ELSE NoneResult

StoreContextAlways(ids, request, session_id, reply) ==
    With(ids, <<session_id, request.agent_name>>, reply.context_id)

\* _send_message line 203: a Task's context id is stored for (session, agent).
StoreContext(ids, request, session_id, reply) ==
    IF reply.kind = "task"
    THEN With(ids, <<session_id, request.agent_name>>, reply.context_id)
    ELSE ids

\* A node that awaits _send_message: the call is suspended on the request.
Suspend(r, agent_name, task) ==
    /\ pending' = [pending EXCEPT ![r] =
          SendRequest(agent_name, task, state[r]["session_id"])]
    /\ pc' = [pc EXCEPT ![r] = "awaiting"]
    /\ active' = 0
    /\ UNCHANGED <<state, current>>

\* _fetch_weather up to its return or to the await of the send.
FetchWeatherStep(r) ==
    /\ AtNode(r, "_fetch_weather")
    /\ Invoked(r)
    /\ IF _weather_agent_name = NoneStr
       THEN /\ Advance(r, FetchWeatherOffline(state[r]))
            /\ UNCHANGED <<pending, pc, active>>
       ELSE IF _weather_agent_name \notin remote_agent_connections
       THEN /\ Advance(r, FetchWeatherDone(state[r], NoneResult))
            /\ UNCHANGED <<pending, pc, active>>
       ELSE Suspend(r, _weather_agent_name, WeatherPrompt(state[r]))
    /\ UNCHANGED <<avars, svars, call, returned, heard, concurrent, gvars>>

\* _fetch_hotel up to its return or to the await of the send.
FetchHotelStep(r) ==
    /\ AtNode(r, "_fetch_hotel")
    /\ Invoked(r)
    /\ IF _hotel_agent_name = NoneStr
       THEN /\ Advance(r, FetchHotelOffline(state[r]))
            /\ UNCHANGED <<pending, pc, active>>
       ELSE IF _hotel_agent_name \notin remote_agent_connections
       THEN /\ Advance(r, FetchHotelDone(state[r], NoneResult))
            /\ UNCHANGED <<pending, pc, active>>
       ELSE Suspend(r, _hotel_agent_name, HotelPrompt(state[r]))
    /\ UNCHANGED <<avars, svars, call, returned, heard, concurrent, gvars>>

\* The call suspended in node func, resumed by the event loop.
Awaiting(r, func) ==
    /\ active = 0
    /\ pc[r] = "awaiting"
    /\ Graph._nodes[current[r]] = func

Resume(r, reply) ==
    /\ _session_context_ids' =
          StoreContext(_session_context_ids, pending[r], call[r].session_id, reply)
    /\ heard' = [heard EXCEPT ![r] =
          AppendRep(@, [agent_name |-> pending[r].agent_name,
                        text |-> _extract_task_output(SendResult(reply))])]
    /\ pending' = [pending EXCEPT ![r] = NoPending]
    /\ pc' = [pc EXCEPT ![r] = "running"]
    /\ active' = r

\* connection.send_message came back to _fetch_weather.
WeatherReply(r, reply) ==
    /\ Awaiting(r, "_fetch_weather")
    /\ reply \in Replies(pending[r].agent_name)
    /\ reply.kind # "raise"
    /\ Resume(r, reply)
    /\ Advance(r, FetchWeatherDone(state[r], SendResult(reply)))
    /\ UNCHANGED <<avars, _session_history, call, returned, trace, concurrent, gvars>>

\* connection.send_message came back to _fetch_hotel.
HotelReply(r, reply) ==
    /\ Awaiting(r, "_fetch_hotel")
    /\ reply \in Replies(pending[r].agent_name)
    /\ reply.kind # "raise"
    /\ Resume(r, reply)
    /\ Advance(r, FetchHotelDone(state[r], SendResult(reply)))
    /\ UNCHANGED <<avars, _session_history, call, returned, trace, concurrent, gvars>>

\* connection.send_message raised: the exception leaves the node, ainvoke and
\* handle_user_message.
SendRaises(r) ==
    /\ active = 0
    /\ pc[r] = "awaiting"
    /\ pc' = [pc EXCEPT ![r] = "raised"]
    /\ pending' = [pending EXCEPT ![r] = NoPending]
    /\ UNCHANGED <<avars, svars, active, call, state, current, returned, trace, heard, concurrent, gvars>>

Fallback == <<"I'm not sure how to help with that just yet.">>

Assistant(texts) == [i \in DOMAIN texts |-> [role |-> "assistant", content |-> texts[i]]]

HandleResultNoFallback(final_state) ==
    Get(final_state, "response_chunks", <<>>)

\* handle_user_message lines 129-137: the list it returns for final_state.
HandleResult(final_state) ==
    LET responses == Get(final_state, "response_chunks", <<>>)
    IN  IF responses = <<>> THEN <<Fallback>> ELSE responses

\* handle_user_message after ainvoke returned (lines 129-137).
Finish(r) ==
    /\ active = r
    /\ pc[r] = "running"
    /\ current[r] = END
    /\ LET out == HandleResult(state[r])
           sid == call[r].session_id
       IN  /\ _session_history' =
                 With(_session_history, sid,
                      Get(_session_history, sid, <<>>) \o Assistant(out))
           /\ returned' = [returned EXCEPT ![r] = out]
    /\ pc' = [pc EXCEPT ![r] = "returned"]
    /\ active' = 0
    /\ UNCHANGED <<avars, _session_context_ids, call, state, current, pending,
                   trace, heard, concurrent, gvars>>

RunNext(r) ==
    \/ \E message \in Messages, session_id \in Sessions : StartRun(r, message, session_id)
    \/ ClassifyStep(r)
    \/ EvaluateStep(r)
    \/ FetchWeatherStep(r)
    \/ FetchHotelStep(r)
    \/ ComposeStep(r)
    \/ \E reply \in Replies(WeatherCard.name) : WeatherReply(r, reply)
    \/ \E reply \in Replies(HotelCard.name) : HotelReply(r, reply)
    \/ SendRaises(r)
    \/ Finish(r)

Next ==
    \/ \E card \in Cards : LoadCard(card)
    \/ Created
    \/ \E r \in Runs : RunNext(r)

Spec == Init /\ [][Next]_vars

\* Every call the event loop can run is run: asyncio schedules every ready
\* task, and a reply is delivered to the call awaiting it.
FairSpec == Spec /\ \A r \in Runs : WF_vars(RunNext(r))

\* ------------------------------------------- the executor on arbitrary graphs

\* Number of add_node / set_entry_point / add_edge / add_conditional_edges
\* calls made on the StateGraph in one behaviour.
MaxBuild == 4

NodeNames == {"a", "b"}

\* Node callables: keep returns None, mark returns {**state, "x": "1"},
\* fresh returns a new dict {"route": "go"}, boom raises.
NodeFuncs == {"keep", "mark", "fresh", "boom"}

\* Routers: by_route returns state.get("route", "none"), boom_router raises.
Routers == {"by_route", "boom_router"}

Mappings == {[go |-> "b"], [go |-> END]}

InitialStates == {<<>>, [x |-> "0"], [x |-> "0", route |-> "go"]}

\* What the node callable func returns for st.
Call(func, st) ==
    CASE func = "keep" -> NoneResult
      [] func = "mark" -> With(st, "x", "1")
      [] func = "fresh" -> [route |-> "go"]
      [] OTHER -> NoneResult

Building ==
    /\ ops < MaxBuild
    /\ g_pc # "running"
    /\ ops' = ops + 1
    /\ UNCHANGED <<compiled, compile_log, g_pc, g_state, g_current, g_before,
                   g_result, g_error, hvars, avars, svars, rvars>>

AddNode(name, func) ==
    /\ Building
    /\ builder' = add_node(builder, name, func)

SetEntryPoint(name) ==
    /\ Building
    /\ builder' = set_entry_point(builder, name)

AddEdge(start, end) ==
    /\ Building
    /\ builder' = add_edge(builder, start, end)

AddConditionalEdges(start, router, mapping) ==
    /\ Building
    /\ builder' = add_conditional_edges(builder, start, router, mapping)

\* A call of StateGraph.compile: it raises, or returns a _CompiledGraph that
\* holds the definition's three dicts (the same objects) and its entry point.
Compile ==
    /\ g_pc # "running"
    /\ LET c == compile(builder)
       IN  /\ compile_log' = [called |-> TRUE, before |-> builder, ok |-> c.ok,
                              error |-> IF c.ok THEN NoneStr ELSE c.error]
           /\ compiled' = IF c.ok
                          THEN [made |-> TRUE, _entry_point |-> c.graph._entry_point]
                          ELSE compiled
    /\ UNCHANGED <<builder, ops, g_pc, g_state, g_current, g_before, g_result,
                   g_error, hvars, avars, svars, rvars>>

\* The _CompiledGraph as a run sees it: _nodes, _edges and _conditionals are
\* the dicts of the StateGraph it was compiled from (__init__ lines 39-41
\* store the references), _entry_point the str it was given.
Compiled ==
    [_nodes |-> builder._nodes, _edges |-> builder._edges,
     _conditionals |-> builder._conditionals,
     _entry_point |-> compiled._entry_point]

\* ainvoke lines 47-48.
Invoke(initial_state) ==
    /\ compiled.made
    /\ g_pc = "idle"
    /\ g_state' = initial_state
    /\ g_current' = Compiled._entry_point
    /\ g_pc' = "running"
    /\ UNCHANGED <<builder, compiled, compile_log, ops, g_before, g_result,
                   g_error, hvars, avars, svars, rvars>>

Looping == g_pc = "running" /\ g_current # END

RouterRaises(cur) ==
    /\ cur \in DOMAIN Compiled._conditionals
    /\ Compiled._conditionals[cur].router = "boom_router"

\* One iteration of ainvoke's loop (lines 50-65) that raises nothing.
NodeStep ==
    /\ Looping
    /\ g_current \in DOMAIN Compiled._nodes
    /\ Compiled._nodes[g_current] # "boom"
    /\ ~RouterRaises(g_current)
    /\ LET result == Call(Compiled._nodes[g_current], g_state)
           st == MergeResult(g_state, result)
       IN  /\ g_before' = g_state
           /\ g_result' = result
           /\ g_state' = st
           /\ g_current' = NextNode(Compiled, g_current, st)
    /\ UNCHANGED <<builder, compiled, compile_log, ops, g_pc, g_error,
                   hvars, avars, svars, rvars>>

MissingNodeEndsRun ==
    /\ g_pc = "running" /\ g_current # END
    /\ g_current \notin DOMAIN Compiled._nodes
    /\ g_pc' = "returned"
    /\ UNCHANGED <<builder, compiled, compile_log, ops, g_state, g_current,
                   g_before, g_result, g_error, hvars, avars, svars, rvars>>

\* ainvoke line 51: self._nodes[current] raises KeyError.
MissingNode ==
    /\ Looping
    /\ g_current \notin DOMAIN Compiled._nodes
    /\ g_pc' = "raised"
    /\ g_error' = "KeyError"
    /\ UNCHANGED <<builder, compiled, compile_log, ops, g_state, g_current,
                   g_before, g_result, hvars, avars, svars, rvars>>

NodeRaisesSwallowed ==
    /\ g_pc = "running" /\ g_current # END
    /\ g_current \in DOMAIN Compiled._nodes
    /\ Compiled._nodes[g_current] = "boom"
    /\ g_before' = g_state
    /\ g_current' = NextNode(Compiled, g_current, g_state)
    /\ UNCHANGED <<builder, compiled, compile_log, ops, g_pc, g_state,
                   g_result, g_error, hvars, avars, svars, rvars>>

\* The node callable raises (lines 52-54).
NodeRaises ==
    /\ Looping
    /\ g_current \in DOMAIN Compiled._nodes
    /\ Compiled._nodes[g_current] = "boom"
    /\ g_before' = g_state
    /\ g_pc' = "raised"
    /\ g_error' = "NodeError"
    /\ UNCHANGED <<builder, compiled, compile_log, ops, g_state, g_current,
                   g_result, hvars, avars, svars, rvars>>

\* The node returned and the router of its conditional edge raises (line 60).
RouterRaisesStep ==
    /\ Looping
    /\ g_current \in DOMAIN Compiled._nodes
    /\ Compiled._nodes[g_current] # "boom"
    /\ RouterRaises(g_current)
    /\ LET result == Call(Compiled._nodes[g_current], g_state)
       IN  /\ g_before' = g_state
           /\ g_result' = result
           /\ g_state' = MergeResult(g_state, result)
    /\ g_pc' = "raised"
    /\ g_error' = "RouterError"
    /\ UNCHANGED <<builder, compiled, compile_log, ops, g_current,
                   hvars, avars, svars, rvars>>

\* ainvoke line 67: return state.
Return ==
    /\ g_pc = "running"
    /\ g_current = END
    /\ g_pc' = "returned"
    /\ UNCHANGED <<builder, compiled, compile_log, ops, g_state, g_current,
                   g_before, g_result, g_error, hvars, avars, svars, rvars>>

\* handle_user_message lines 129-137 for the final state such a run returned.
HandleReturn ==
    /\ g_pc = "returned"
    /\ g_returned' = HandleResult(g_state)
    /\ g_history' = g_history \o Assistant(HandleResult(g_state))
    /\ g_pc' = "handled"
    /\ UNCHANGED <<builder, compiled, compile_log, ops, g_state, g_current,
                   g_before, g_result, g_error, avars, svars, rvars>>

GraphNext ==
    \/ \E name \in NodeNames, func \in NodeFuncs : AddNode(name, func)
    \/ \E name \in NodeNames : SetEntryPoint(name)
    \/ \E start \in NodeNames, end \in NodeNames \cup {END} : AddEdge(start, end)
    \/ \E start \in NodeNames, router \in Routers, mapping \in Mappings :
          AddConditionalEdges(start, router, mapping)
    \/ Compile
    \/ \E initial_state \in InitialStates : Invoke(initial_state)
    \/ NodeStep
    \/ MissingNode
    \/ NodeRaises
    \/ RouterRaisesStep
    \/ Return
    \/ HandleReturn

SpecGraph == Init /\ [][GraphNext]_vars

\* ------------------------------------------------------------------ claims

Returned(r) == pc[r] = "returned"

\* Text with a term of the hazard vocabulary, whatever its case.
Hazardous(text) == \E i \in DOMAIN text : LowerTok(text[i]) \in HAZARD_KEYWORDS

\* A calm forecast: some text, no hazard term.
Calm(text) == Truthy(text) /\ ~Hazardous(text)

\* A fragment that presents hotel (rental) ideas.
RentalIdeas(chunk) ==
    \/ Contains(chunk, <<"Hotel ideas">>)
    \/ Contains(chunk, <<"Here are some rental ideas">>)

Last(list) == list[Len(list)]

WeatherHeard(r) == {i \in DOMAIN heard[r] : heard[r][i].agent_name = WeatherCard.name}
HotelHeard(r) == {i \in DOMAIN heard[r] : heard[r][i].agent_name = HotelCard.name}

\* C1: in every run, fetch_hotel is invoked only after fetch_weather was
\* invoked earlier in the same run and left a non-empty weather_output that
\* has no hazard term; the hotel specialist is never asked otherwise.
C1_HotelOnlyAfterSafeWeather ==
    \A r \in Runs :
        \A j \in DOMAIN trace[r] :
            trace[r][j] = "fetch_hotel" =>
                /\ \E i \in 1..(j - 1) : trace[r][i] = "fetch_weather"
                /\ "weather_output" \in DOMAIN state[r]
                /\ Calm(state[r]["weather_output"])

C1_Witness ==
    \E r \in Runs :
        /\ pc[r] = "awaiting"
        /\ pending[r].agent_name = HotelCard.name
        /\ Last(trace[r]) = "fetch_hotel"

\* C2: in any single run fetch_weather is invoked at most twice.
C2_FetchWeatherAtMostTwice ==
    \A r \in Runs : Count(trace[r], "fetch_weather") <= 2

\* C3: every run whose classifier and specialist calls all return eventually
\* reaches END and returns (a run that a raising send ends counts as ended).
C3_EveryRunEnds ==
    \A r \in Runs : (pc[r] = "running") ~> (pc[r] \in {"returned", "raised"})

\* C4: a run that needs the hotel and whose weather specialist returned text
\* with a hazard term ends with decision deny_hotel, never invokes
\* fetch_hotel, returns no fragment with hotel output, and its last fragment
\* contains "hazardous conditions".
C4_HazardDenies ==
    \A r \in Runs :
        (/\ Returned(r)
         /\ state[r]["need_hotel"]
         /\ \E i \in WeatherHeard(r) : Hazardous(heard[r][i].text))
        => /\ state[r]["final_decision"] = "deny_hotel"
           /\ Count(trace[r], "fetch_hotel") = 0
           /\ HotelHeard(r) = {}
           /\ "hotel_output" \notin DOMAIN state[r]
           /\ \A k \in DOMAIN returned[r] : ~RentalIdeas(returned[r][k])
           /\ Contains(Last(returned[r]), <<"hazardous conditions">>)

C4_Witness ==
    \E r \in Runs :
        /\ Returned(r)
        /\ state[r]["need_hotel"]
        /\ \E i \in WeatherHeard(r) : Hazardous(heard[r][i].text)
        /\ _hotel_agent_name # NoneStr

\* C5: a run that needs the hotel, whose weather specialist returned a calm
\* forecast and whose known hotel specialist returned non-empty text invokes
\* fetch_hotel exactly once, after fetch_weather; some fragment contains the
\* hotel specialist's text and the last one "Here are some rental ideas".
C5_CalmAllows ==
    \A r \in Runs :
        (/\ Returned(r)
         /\ state[r]["need_hotel"]
         /\ \E i \in WeatherHeard(r) : Calm(heard[r][i].text)
         /\ _hotel_agent_name # NoneStr
         /\ \A i \in HotelHeard(r) : Truthy(heard[r][i].text))
        => /\ Count(trace[r], "fetch_hotel") = 1
           /\ \E i, j \in DOMAIN trace[r] :
                 i < j /\ trace[r][i] = "fetch_weather" /\ trace[r][j] = "fetch_hotel"
           /\ Cardinality(HotelHeard(r)) = 1
           /\ \A i \in HotelHeard(r) :
                 \E k \in DOMAIN returned[r] :
                     Contains(returned[r][k], Strip(heard[r][i].text))
           /\ Contains(Last(returned[r]), <<"Here are some rental ideas">>)

C5_Witness ==
    \E r \in Runs :
        /\ Returned(r)
        /\ state[r]["need_hotel"]
        /\ \E i \in WeatherHeard(r) : Calm(heard[r][i].text)
        /\ \E i \in HotelHeard(r) : Contains(heard[r][i].text, <<"Ocean", "Breeze", "loft">>)

\* Call 2 was made after call 1 returned, in the same session.
Consecutive ==
    /\ Returned(1) /\ Returned(2)
    /\ call[1].session_id = call[2].session_id
    /\ _session_history[call[1].session_id] =
          <<[role |-> "user", content |-> call[1].message]>> \o Assistant(returned[1])
          \o <<[role |-> "user", content |-> call[2].message]>> \o Assistant(returned[2])

\* C6: of two consecutive calls in one session, the first denied for a
\* hazardous forecast, the second given a calm forecast (and hotel ideas)
\* whenever it asks: the second call's output surfaces rental ideas.
C6_SecondCallSurfacesRentals ==
    (/\ Consecutive
     /\ state[1]["need_hotel"]
     /\ state[1]["final_decision"] = "deny_hotel"
     /\ _weather_agent_name # NoneStr /\ _hotel_agent_name # NoneStr
     /\ \A i \in WeatherHeard(2) : Calm(heard[2][i].text)
     /\ \A i \in HotelHeard(2) : Truthy(heard[2][i].text))
    => \E k \in DOMAIN returned[2] : RentalIdeas(returned[2][k])

\* C7: a run classified need_weather and not need_hotel, with the weather
\* specialist known, makes exactly one specialist call, to the weather
\* specialist, never invokes fetch_hotel and returns no rental fragment.
C7_WeatherOnlyOneCall ==
    \A r \in Runs :
        (/\ Returned(r)
         /\ state[r]["need_weather"] /\ ~state[r]["need_hotel"]
         /\ _weather_agent_name # NoneStr)
        => /\ Len(heard[r]) = 1
           /\ heard[r][1].agent_name = WeatherCard.name
           /\ Count(trace[r], "fetch_hotel") = 0
           /\ \A k \in DOMAIN returned[r] : ~RentalIdeas(returned[r][k])

\* C8: two runs with the same request text and session id that received the
\* same replies (under the one specialist directory) invoked the same
\* sequence of nodes and returned the same list of fragments.
C8_Deterministic ==
    \A r1, r2 \in Runs :
        (/\ Returned(r1) /\ Returned(r2)
         /\ call[r1] = call[r2]
         /\ heard[r1] = heard[r2])
        => /\ trace[r1] = trace[r2]
           /\ returned[r1] = returned[r2]

C8_Witness ==
    /\ Returned(1) /\ Returned(2)
    /\ call[1] = call[2]
    /\ heard[1] = heard[2]
    /\ Len(heard[1]) = 2
    /\ Get(_session_context_ids, <<call[1].session_id, WeatherCard.name>>, NoneStr)
          = "ctx-b"
    /\ pending[1] = NoPending

\* C9: after a node that returned None the executor's state is the state the
\* node was invoked with; after a node that returned a dict the state is
\* exactly that dict.
C9_MergeReplace ==
    /\ g_result = NoneResult => g_state = g_before
    /\ g_result \notin {NoneResult, NotRun} => g_state = g_result

C9_Witness ==
    /\ g_result = NoneResult
    /\ g_before = [x |-> "0", route |-> "go"]
    /\ g_pc = "returned"

\* C10: compile() on a definition whose entry point was never set raises
\* RuntimeError, yields no _CompiledGraph and leaves the definition as it was,
\* whatever nodes and edges are registered.
C10_CompileWithoutEntryFails ==
    [][(compile_log' # compile_log /\ builder._entry_point = NoneStr)
        => /\ ~compile_log'.ok
           /\ compile_log'.error = "RuntimeError"
           /\ ~compiled'.made
           /\ builder' = builder]_vars

C10_Witness ==
    /\ compile_log.called
    /\ compile_log.before._entry_point = NoneStr
    /\ DOMAIN compile_log.before._nodes = NodeNames
    /\ DOMAIN compile_log.before._edges # {}

\* C11 as stated: the entry stage of every _CompiledGraph is a key of the
\* node registry it was compiled from, and compile() fails when the entry
\* name is not a registered node.
C11_EntryRegisteredAtCompile ==
    /\ compiled.made =>
          compiled._entry_point \in DOMAIN compile_log.before._nodes
    /\ (/\ compile_log.called
        /\ compile_log.before._entry_point \notin DOMAIN compile_log.before._nodes)
       => ~compile_log.ok

\* C11 amended: compile() fails exactly when no entry name was set; it makes
\* no check of the registry, and the _CompiledGraph's entry stage is the name
\* given to set_entry_point, registered or not.
C11_CompileChecksEntrySetOnly ==
    compile_log.called =>
        /\ compile_log.ok <=> compile_log.before._entry_point # NoneStr
        /\ compile_log.ok =>
              /\ compiled.made
              /\ compiled._entry_point = compile_log.before._entry_point
              /\ compile_log.error = NoneStr

C11_Witness ==
    /\ compile_log.called
    /\ compile_log.ok
    /\ DOMAIN compile_log.before._nodes # {}
    /\ compile_log.before._entry_point \notin DOMAIN compile_log.before._nodes

\* C12: a run of the compiled graph uses the nodes, edges, conditional edges
\* and entry point the definition had when compile() returned, whatever
\* add_node, add_edge, add_conditional_edges or set_entry_point calls were
\* made on the StateGraph since.
C12_CompiledIsSnapshot ==
    (compiled.made /\ g_pc = "running") =>
        /\ Compiled._nodes = compile_log.before._nodes
        /\ Compiled._edges = compile_log.before._edges
        /\ Compiled._conditionals = compile_log.before._conditionals
        /\ Compiled._entry_point = compile_log.before._entry_point

\* A definition with an entry point, static edge or conditional edge that
\* names a node absent from its registry.
Dangling(g) ==
    LET known == DOMAIN g._nodes \cup {END}
    IN  \/ g._entry_point \notin known \cup {NoneStr}
        \/ \E n \in DOMAIN g._edges : g._edges[n] \notin known
        \/ \E n \in DOMAIN g._conditionals :
              \E k \in DOMAIN g._conditionals[n].mapping :
                  g._conditionals[n].mapping[k] \notin known

\* C13: compile() accepts a definition with a dangling entry point or edge
\* target; a run raises KeyError at exactly the loop iteration whose current
\* name is not in the registry, without invoking a node in that iteration
\* (state, last node input and last node result stay as the earlier nodes
\* left them); after the error has left ainvoke nothing more is invoked.
C13_DanglingFailsWhenReached ==
    /\ [][(compile_log' # compile_log /\ builder._entry_point # NoneStr
                /\ Dangling(builder))
            => compile_log'.ok /\ compiled'.made]_vars
    /\ [][(g_pc = "running" /\ g_current # END /\ g_pc' # g_pc) =>
            /\ (g_current \notin DOMAIN Compiled._nodes)
                  <=> (g_pc' = "raised" /\ g_error' = "KeyError")
            /\ g_error' = "KeyError" =>
                  UNCHANGED <<g_state, g_before, g_result, g_current>>]_vars
    /\ [][g_pc = "raised" =>
            /\ g_pc' = "raised"
            /\ UNCHANGED <<g_state, g_before, g_result, g_current, g_error>>]_vars

\* A node ran, then the run reached a name that was dangling at compile().
C13_Witness ==
    /\ g_pc = "raised"
    /\ g_error = "KeyError"
    /\ compile_log.ok
    /\ Dangling(compile_log.before)
    /\ compile_log.before = builder
    /\ g_result # NotRun
    /\ g_state = [x |-> "1"]

\* The route key the router of node n returns for st is not in its mapping.
Unmapped(n, st) ==
    /\ n \in DOMAIN Compiled._conditionals
    /\ Route(Compiled._conditionals[n].router, st)
          \notin DOMAIN Compiled._conditionals[n].mapping

\* Node n has neither a conditional nor a static edge.
NoWayOut(n) ==
    /\ n \notin DOMAIN Compiled._conditionals
    /\ n \notin DOMAIN Compiled._edges

\* C14: an iteration of ainvoke in which the node and the router returned,
\* with a route key that the mapping lacks or with a node that has no edge at
\* all, sets current to END without raising; ainvoke then returns the state
\* exactly as that iteration left it.
C14_UnroutableFailsOpen ==
    /\ [][(g_pc = "running" /\ g_current # END /\ g_pc' = "running"
              /\ (Unmapped(g_current, g_state') \/ NoWayOut(g_current)))
            => g_current' = END /\ g_error' = NoneStr]_vars
    /\ [][(g_pc = "running" /\ g_current = END)
            => /\ g_pc' = "returned"
               /\ UNCHANGED <<g_state, g_error>>]_vars

\* The entry node ran, its router returned a key its mapping lacks, a static
\* edge of the same node was not followed, and the run returned.
C14_Witness ==
    /\ g_pc = "returned"
    /\ g_error = NoneStr
    /\ compile_log.before = builder
    /\ Compiled._entry_point = "a"
    /\ g_result = [x |-> "1"]
    /\ g_state = [x |-> "1"]
    /\ Unmapped("a", g_state)
    /\ Get(Compiled._edges, "a", END) = "b"

\* The keys of the mapping of evaluate_policy's conditional edge.
RouteKeys == DOMAIN Graph._conditionals["evaluate_policy"].mapping

\* C15: whenever evaluate_policy has been invoked in a run, the key
\* _route_policy returns for the run's state is a key of the mapping of
\* evaluate_policy's conditional edge; right after
\* evaluate_policy current is a node, never END; and a run whose current is
\* END has compose_response as the last node it invoked.
C15_RoutingComplete ==
    \A r \in Runs :
        /\ Count(trace[r], "evaluate_policy") > 0 =>
              _route_policy(state[r]) \in RouteKeys
        /\ (trace[r] # <<>> /\ Last(trace[r]) = "evaluate_policy") =>
              current[r] \in DOMAIN Graph._nodes
        /\ (pc[r] # "idle" /\ current[r] = END) =>
              Last(trace[r]) = "compose_response"

\* The router has just sent a run to compose_response by the key deny_hotel.
C15_Witness ==
    \E r \in Runs :
        /\ pc[r] = "running"
        /\ trace[r] # <<>>
        /\ Last(trace[r]) = "evaluate_policy"
        /\ _route_policy(state[r]) = "deny_hotel"
        /\ current[r] = "compose_response"

IsPrefix(a, b) == Len(a) <= Len(b) /\ SubSeq(b, 1, Len(a)) = a

\* C16: once _classify_request has set response_chunks, every step of a run
\* leaves the list it held as a prefix of the list it holds afterwards, and
\* the list handle_user_message returns is the list of the final state.
C16_FragmentsAppendOnly ==
    /\ [][\A r \in Runs :
            (pc[r] \in {"running", "awaiting"}
               /\ "response_chunks" \in DOMAIN state[r])
            => /\ "response_chunks" \in DOMAIN state'[r]
               /\ IsPrefix(state[r]["response_chunks"],
                           state'[r]["response_chunks"])]_vars
    /\ [](\A r \in Runs :
            Returned(r) => returned[r] = state[r]["response_chunks"])

\* The policy fragment, the weather outlook, the hotel ideas and the summary.
C16_Witness ==
    \E r \in Runs :
        /\ Returned(r)
        /\ Len(returned[r]) = 4
        /\ Contains(returned[r][2], <<"Weather outlook">>)
        /\ RentalIdeas(returned[r][3])

\* C17: handle_user_message never returns an empty list; for a final state
\* with no response fragment it returns the one fallback message and appends
\* to the session history that message as a single assistant entry.
C17_FallbackNeverEmpty ==
    /\ [](g_pc = "handled" => g_returned # <<>>)
    /\ [][(g_pc = "returned" /\ g_pc' = "handled"
              /\ Get(g_state, "response_chunks", <<>>) = <<>>)
            => /\ g_returned' = <<Fallback>>
               /\ g_history' =
                     Append(g_history, [role |-> "assistant", content |-> Fallback])]_vars

\* A run whose nodes ran and left no response_chunks was answered.
C17_Witness ==
    /\ g_pc = "handled"
    /\ g_result # NotRun
    /\ "response_chunks" \notin DOMAIN g_state
    /\ g_returned = <<Fallback>>

\* The message has a word of the vocabulary words, whatever its case.
MentionsAny(message, words) ==
    \E i \in DOMAIN message : LowerTok(message[i]) \in words

\* C18: in the classification of every message, need_rentals implies
\* need_weather, and need_weather holds exactly when the message has a weather
\* word or a rental word.
C18_RentalsNeedWeather ==
    \A r \in Runs :
        "need_weather" \in DOMAIN state[r] =>
            /\ state[r]["need_hotel"] => state[r]["need_weather"]
            /\ state[r]["need_hotel"]
                  <=> MentionsAny(call[r].message, RENTAL_KEYWORDS)
            /\ state[r]["need_weather"]
                  <=> MentionsAny(call[r].message,
                                  WEATHER_KEYWORDS \cup RENTAL_KEYWORDS)

\* A rental request without a weather word was classified.
C18_Witness ==
    \E r \in Runs :
        /\ "need_weather" \in DOMAIN state[r]
        /\ state[r]["need_hotel"]
        /\ state[r]["need_weather"]
        /\ ~MentionsAny(call[r].message, WEATHER_KEYWORDS)

\* The run needs weather and the agent knows no weather specialist.
Degraded(r) ==
    /\ "need_weather" \in DOMAIN state[r]
    /\ state[r]["need_weather"]
    /\ _weather_agent_name = NoneStr

\* C19: in a run that needs weather while no weather specialist is known,
\* evaluate_policy appends the fallback note and routes to compose_response;
\* neither fetch_weather nor fetch_hotel is invoked and no specialist is
\* sent anything, also when the hotel is needed and a hotel specialist is
\* known; the run returns after classify, evaluate and compose.
C19_DegradedContactsNoOne ==
    \A r \in Runs :
        Degraded(r) =>
            /\ Count(trace[r], "fetch_weather") = 0
            /\ Count(trace[r], "fetch_hotel") = 0
            /\ heard[r] = <<>>
            /\ pending[r] = NoPending
            /\ pc[r] # "awaiting"
            /\ Count(trace[r], "evaluate_policy") > 0 =>
                  /\ Last(state[r]["policy_notes"]) = NoteNoWeatherAgent
                  /\ state[r]["policy_route"] = "respond"
                  /\ current[r] \in {"compose_response", END}
            /\ Returned(r) =>
                  trace[r] = <<"classify_request", "evaluate_policy",
                               "compose_response">>

\* A hotel request returned in degraded mode with the hotel specialist known.
C19_Witness ==
    \E r \in Runs :
        /\ Degraded(r)
        /\ Returned(r)
        /\ state[r]["need_hotel"]
        /\ _hotel_agent_name # NoneStr
        /\ _hotel_agent_name \in remote_agent_connections

\* C20: no run ever takes the re-fetch of branch 2 of _evaluate_policy (hotel
\* needed, weather_output empty, "re-requesting" note, route fetch_weather):
\* whenever the hotel is needed and weather_output is empty, branch 1 is the
\* one that answers.
C20_Branch2RefetchUnreachable ==
    \A r \in Runs :
        /\ Count(Get(state[r], "policy_notes", <<>>), NoteRefetch) = 0
        /\ (/\ Get(state[r], "need_hotel", FALSE)
            /\ ~Truthy(Get(state[r], "weather_output", NoneText))
            /\ trace[r] # <<>>
            /\ Last(trace[r]) = "evaluate_policy")
           => Last(state[r]["policy_notes"])
                  \in {NoteAwaitWeather, NoteNoWeatherAgent}

\* evaluate_policy was invoked for a hotel request after the weather
\* specialist returned nothing, and asked for the weather again by branch 1.
C20_Witness ==
    \E r \in Runs :
        /\ Get(state[r], "need_hotel", FALSE)
        /\ "weather_output" \in DOMAIN state[r]
        /\ state[r]["weather_output"] = <<>>
        /\ Last(trace[r]) = "evaluate_policy"
        /\ Count(state[r]["policy_notes"], NoteAwaitWeather) = 2
        /\ current[r] = "fetch_weather"

\* evaluate_policy has decided for a run that needs the hotel, holds a calm
\* weather_output and knows no hotel specialist.
AllowedWithoutHotelAgent(r) ==
    /\ Get(state[r], "need_hotel", FALSE)
    /\ Calm(Get(state[r], "weather_output", NoneText))
    /\ "final_decision" \in DOMAIN state[r]
    /\ _hotel_agent_name = NoneStr

\* The decision branch 2 sets for the same state when a hotel specialist is
\* known.
AllowDecision(r) ==
    EvaluateHotel(state[r], <<>>, HotelCard.name)["final_decision"]

\* C21 as stated: with the hotel needed, a calm weather_output and no hotel
\* specialist known, the decision _evaluate_policy sets differs from the one
\* it sets when the specialist is known; the route is respond and fetch_hotel
\* is not invoked.
C21_AllowDegradedDistinct ==
    \A r \in Runs :
        AllowedWithoutHotelAgent(r) =>
            /\ state[r]["final_decision"] # AllowDecision(r)
            /\ state[r]["policy_route"] = "respond"
            /\ Count(trace[r], "fetch_hotel") = 0

\* C21 amended: in that case the decision is allow_hotel, the very value set
\* when the hotel specialist is known; the case shows only in the fallback
\* note and in the route respond, which leads to compose_response without
\* fetch_hotel being invoked or the hotel specialist being sent anything.
C21_AllowDegradedSameValue ==
    \A r \in Runs :
        AllowedWithoutHotelAgent(r) =>
            /\ state[r]["final_decision"] = "allow_hotel"
            /\ state[r]["final_decision"] = AllowDecision(r)
            /\ Last(state[r]["policy_notes"]) = NoteNoHotelAgent
            /\ state[r]["policy_route"] = "respond"
            /\ current[r] \in {"compose_response", END}
            /\ Count(trace[r], "fetch_hotel") = 0
            /\ HotelHeard(r) = {}
            /\ "hotel_output" \notin DOMAIN state[r]

C21_Witness ==
    \E r \in Runs :
        /\ AllowedWithoutHotelAgent(r)
        /\ Returned(r)
        /\ _weather_agent_name = WeatherCard.name

\* A Task whose text is text, None when there is no text.
TaskOf(text) ==
    IF text = <<>> THEN NoneResult
    ELSE [parts |-> <<TextPart(text)>>, context_id |-> NoneStr]

\* What the node callable func returns for st when the send it awaits (if
\* any) comes back with reply.
NodeResult(func, st, reply) ==
    CASE func = "_classify_request" -> _classify_request(st)
      [] func = "_evaluate_policy" ->
            _evaluate_policy(st, _weather_agent_name, _hotel_agent_name)
      [] func = "_fetch_weather" ->
            IF _weather_agent_name = NoneStr THEN FetchWeatherOffline(st)
            ELSE FetchWeatherDone(st, TaskOf(reply.text))
      [] func = "_fetch_hotel" ->
            IF _hotel_agent_name = NoneStr THEN FetchHotelOffline(st)
            ELSE FetchHotelDone(st, TaskOf(reply.text))
      [] OTHER -> _compose_response(st)

\* The node callable func awaits a send.
Sends(func) ==
    \/ func = "_fetch_weather" /\ _weather_agent_name # NoneStr
    \/ func = "_fetch_hotel" /\ _hotel_agent_name # NoneStr

\* ainvoke run from (st, cur) with nothing else running, its sends answered
\* by replies in order: the state, the nodes invoked and where it stands when
\* it reaches END or has no reply left.
RECURSIVE ainvokeAlone(_, _, _, _, _)
ainvokeAlone(st, cur, replies, tr, fuel) ==
    IF cur = END \/ fuel = 0 \/ (Sends(Graph._nodes[cur]) /\ replies = <<>>)
    THEN [state |-> st, trace |-> tr, current |-> cur]
    ELSE LET func == Graph._nodes[cur]
             reply == IF Sends(func) THEN Head(replies)
                      ELSE [agent_name |-> NoneStr, text |-> <<>>]
             st2 == MergeResult(st, NodeResult(func, st, reply))
         IN  ainvokeAlone(st2, NextNode(Graph, cur, st2),
                          IF Sends(func) THEN Tail(replies) ELSE replies,
                          AppendRep(tr, cur), fuel - 1)

\* The call of run r executed alone with the replies run r received.
Alone(r) ==
    ainvokeAlone([user_message |-> call[r].message,
                  session_id |-> call[r].session_id],
                 Graph._entry_point, heard[r], <<>>, 2 * Len(heard[r]) + 6)

\* Both calls were in flight at once: the second user entry of the one
\* session precedes every assistant entry.
Overlapped ==
    /\ pc[1] # "idle" /\ pc[2] # "idle"
    /\ call[1].session_id = call[2].session_id
    /\ Len(_session_history[call[1].session_id]) >= 2
    /\ _session_history[call[1].session_id][2].role = "user"

\* C22: every returned run, however it interleaved with the other run at its
\* sends, invoked the nodes, ended in the state and returned the fragments of
\* the same call executed alone with the replies it received; the history of
\* a session changes only in a step of a call for that session, and a
\* returned call that is the only one of its session left in that session's
\* entry its own user entry and fragments only, whatever the calls for other
\* sessions did.
C22_ConcurrentRunsIsolated ==
    /\ [](\A r \in Runs :
            Returned(r) =>
                /\ Alone(r).current = END
                /\ Alone(r).trace = trace[r]
                /\ Alone(r).state = state[r]
                /\ HandleResult(Alone(r).state) = returned[r])
    /\ [](\A r \in Runs :
            (Returned(r)
               /\ \A q \in Runs \ {r} : call[q].session_id # call[r].session_id)
            => _session_history[call[r].session_id] =
                  <<[role |-> "user", content |-> call[r].message]>>
                      \o Assistant(returned[r]))
    /\ [][\A sid \in Sessions :
            Get(_session_history', sid, <<>>) # Get(_session_history, sid, <<>>)
            => \E r \in Runs : /\ call'[r].session_id = sid
                                /\ pc'[r] # pc[r]]_vars

\* Two calls that were in flight at once both returned, each after two
\* sends, with different replies.
C22_Witness ==
    /\ Overlapped
    /\ Returned(1) /\ Returned(2)
    /\ Len(heard[1]) = 2 /\ Len(heard[2]) = 2
    /\ heard[1] # heard[2]

\* C23: an iteration of ainvoke whose node callable raises, or whose router
\* raises after the node returned, ends ainvoke with that exception at once;
\* afterwards no node or router is invoked, the failing node is not invoked
\* again, and no state is returned or handed to the caller.
C23_ExceptionsPropagate ==
    /\ [][(g_pc = "running" /\ g_current \in DOMAIN Compiled._nodes
              /\ <<g_pc, g_state, g_current, g_before, g_result>>'
                    # <<g_pc, g_state, g_current, g_before, g_result>>)
            => /\ (Compiled._nodes[g_current] = "boom")
                     <=> (g_pc' = "raised" /\ g_error' = "NodeError")
               /\ (Compiled._nodes[g_current] # "boom" /\ RouterRaises(g_current))
                     <=> (g_pc' = "raised" /\ g_error' = "RouterError")
               /\ g_error' = "NodeError" => UNCHANGED <<g_state, g_result, g_current>>
               /\ g_error' = "RouterError" => g_current' = g_current]_vars
    /\ [][g_pc = "raised"
            => /\ g_pc' = "raised"
               /\ UNCHANGED <<g_state, g_current, g_before, g_result, g_error,
                              g_returned, g_history>>]_vars
    /\ [](g_pc = "raised" => g_returned = <<>> /\ g_error # NoneStr)

\* Node a ran, then node b raised.
C23_Witness ==
    /\ g_pc = "raised"
    /\ g_error = "NodeError"
    /\ compile_log.before = builder
    /\ g_current = "b"
    /\ g_result = [x |-> "1"]
    /\ g_state = [x |-> "1"]

\* C24: a run of the policy graph invokes classify_request first and once;
\* the step that invokes compose_response appends exactly one fragment and
\* leads to END; a returned run invoked compose_response once, as its last
\* node, and returned the non-empty final list, never the fallback message.
C24_ClassifyFirstComposeLast ==
    /\ [](\A r \in Runs :
            /\ trace[r] # <<>> =>
                  trace[r][1] = "classify_request"
                  /\ Count(trace[r], "classify_request") = 1
            /\ Returned(r) =>
                  /\ Last(trace[r]) = "compose_response"
                  /\ Count(trace[r], "compose_response") = 1
                  /\ returned[r] # <<>>
                  /\ returned[r] = state[r]["response_chunks"]
                  /\ \A k \in DOMAIN returned[r] : returned[r][k] # Fallback)
    /\ [][\A r \in Runs :
            (current[r] = "compose_response" /\ current'[r] # current[r])
            => /\ current'[r] = END
               /\ Len(Get(state'[r], "response_chunks", <<>>))
                     = Len(Get(state[r], "response_chunks", <<>>)) + 1]_vars

\* A request with neither a weather nor a rental word returned the one
\* fragment compose_response made.
C24_Witness ==
    \E r \in Runs :
        /\ Returned(r)
        /\ ~state[r]["need_weather"]
        /\ trace[r] = <<"classify_request", "evaluate_policy", "compose_response">>
        /\ returned[r] = <<SummaryNeutral>>

\* What one call contributes to its session's history.
Entry(r) ==
    <<[role |-> "user", content |-> call[r].message]>>
        \o (IF Returned(r) THEN Assistant(returned[r]) ELSE <<>>)

\* The entries of the calls r, r + 1, ... made for session sid, in call order.
RECURSIVE HistoryInCallOrder(_, _)
HistoryInCallOrder(sid, r) ==
    IF r > MaxRuns THEN <<>>
    ELSE (IF pc[r] # "idle" /\ call[r].session_id = sid THEN Entry(r) ELSE <<>>)
             \o HistoryInCallOrder(sid, r + 1)

RoleCount(sid, role) ==
    LET h == Get(_session_history, sid, <<>>)
    IN  Cardinality({i \in DOMAIN h : h[i].role = role})

RECURSIVE FragmentsReturned(_, _)
FragmentsReturned(sid, r) ==
    IF r > MaxRuns THEN 0
    ELSE (IF Returned(r) /\ call[r].session_id = sid THEN Len(returned[r]) ELSE 0)
             + FragmentsReturned(sid, r + 1)

\* C25: every step leaves each session's history a prefix of what it is
\* afterwards; while no call has started with another in flight, the history
\* of a session is the concatenation, in call order, of each call's user
\* entry followed by the fragments it returned (none for a call that raised
\* or has not returned); the step in which a call raises adds nothing; and
\* in every case a session holds one user entry per call made for it and one
\* assistant entry per fragment returned for it.
C25_HistoryAppendOnly ==
    /\ [][\A sid \in Sessions :
            IsPrefix(Get(_session_history, sid, <<>>),
                     Get(_session_history', sid, <<>>))]_vars
    /\ [](~concurrent =>
            \A sid \in Sessions :
                Get(_session_history, sid, <<>>) = HistoryInCallOrder(sid, 1))
    /\ [][\A r \in Runs :
            (pc[r] # "raised" /\ pc'[r] = "raised")
            => _session_history' = _session_history]_vars
    /\ [](\A sid \in Sessions :
            /\ RoleCount(sid, "user")
                  = Cardinality({r \in Runs : pc[r] # "idle" /\ call[r].session_id = sid})
            /\ RoleCount(sid, "assistant") = FragmentsReturned(sid, 1))

\* Two calls of one session were in flight at once and both returned: the
\* second user entry stands between the first user entry and its fragments.
C25_Witness ==
    /\ concurrent
    /\ Returned(1) /\ Returned(2)
    /\ call[1].session_id = call[2].session_id
    /\ _session_history[call[1].session_id] =
          <<[role |-> "user", content |-> call[1].message],
            [role |-> "user", content |-> call[2].message]>>
              \o Assistant(returned[1]) \o Assistant(returned[2])

\* The (session, specialist) pair of the send call r is suspended on.
Pair(r) == <<call[r].session_id, pending[r].agent_name>>

AllReplies == Replies(WeatherCard.name) \cup Replies(HotelCard.name)

\* C26: a send carries the context id stored for its (session, specialist)
\* pair when it is made, none when none is stored, and keeps carrying it
\* while it is in flight, whatever is stored meanwhile; a reply that is a
\* Task stores its context id for the pair of the send, any other reply
\* leaves the stored ids as they are; the id of a pair changes only when a
\* send for that pair comes back; every stored id came from a Task.
C26_ContextIdsPerPair ==
    /\ [][\A r \in Runs :
            (pc[r] = "running" /\ pc'[r] = "awaiting")
            => /\ pending'[r].context_id =
                     Get(_session_context_ids,
                         <<call[r].session_id, pending'[r].agent_name>>, NoneStr)
               /\ _session_context_ids' = _session_context_ids]_vars
    /\ [][\A r \in Runs :
            (pc[r] = "awaiting" /\ pc'[r] = "awaiting")
            => pending'[r] = pending[r]]_vars
    /\ [][\A r \in Runs : \A reply \in AllReplies :
            (WeatherReply(r, reply) \/ HotelReply(r, reply))
            => IF reply.kind = "task"
               THEN _session_context_ids' =
                        With(_session_context_ids, Pair(r), reply.context_id)
               ELSE _session_context_ids' = _session_context_ids]_vars
    /\ [][\A sid \in Sessions : \A agent \in {WeatherCard.name, HotelCard.name} :
            Get(_session_context_ids', <<sid, agent>>, NoneStr)
                # Get(_session_context_ids, <<sid, agent>>, NoneStr)
            => \E r \in Runs : /\ pc[r] = "awaiting" /\ pc'[r] = "running"
                                /\ Pair(r) = <<sid, agent>>]_vars
    /\ [](\A key \in DOMAIN _session_context_ids :
            _session_context_ids[key] \in ContextIds)

\* Call 1 sent with no context id and is still in flight; meanwhile a send of
\* call 2 for the same pair came back and stored one.
C26_Witness ==
    /\ pc[1] = "awaiting"
    /\ pending[1].context_id = NoneStr
    /\ pc[2] # "idle"
    /\ call[1].session_id = call[2].session_id
    /\ Get(_session_context_ids, Pair(1), NoneStr) = "ctx-a"

====
